---- MODULE Spec2Model ----
(***************************************************************************)
(* Work-stealing thread pool: ThreadSafeDeque (thread_safe_deque.hpp) and  *)
(* ThreadPool (thread_pool.hpp).                                           *)
(*                                                                         *)
(* Every deque operation runs under the deque's mutex mut_, so each        *)
(* critical section is one atomic step; a condition-variable wait releases *)
(* the mutex, so a blocked call is a thread sitting in the wait set of the *)
(* condition variable until it is notified and re-checks its predicate.    *)
(***************************************************************************)
EXTENDS Integers, Sequences, FiniteSets, TLC

\* ---- bounds of the model ------------------------------------------------
\* hardware parallelism seen by the constructor (thread_count)
thread_count == 2
\* threads that call the deque interface directly
NumCallers == 2
\* threads outside the pool that call submit
NumSubmitters == 2
\* tasks ever created (by direct callers of push)
MaxTasks == 4
\* tasks ever submitted to the pool
MaxSubmits == 3
\* capacity handed to the deque constructor (max_size_)
max_size_ == 2
\* close() calls made directly on one deque
MaxCloses == 2
\* largest value of hardware_concurrency() considered
MaxHardware == 3

Workers == 0 .. (thread_count - 1)
Queues  == 0 .. (thread_count - 1)
Callers == thread_count .. (thread_count + NumCallers - 1)
Threads == Workers \cup Callers
Submitters == thread_count .. (thread_count + NumSubmitters - 1)
Tasks   == 1 .. MaxTasks
Submitted == 1 .. MaxSubmits
\* an empty TaskFunc
NoTask  == 0
\* no deque index
NoIndex == 0 - 1
\* no thread (an unlocked mutex has no owner)
NoThread == 0 - 1

VARIABLES
    deque_,         \* [Queues -> Seq(Tasks)]   front = index 1, back = index Len
    done_,          \* [Queues -> BOOLEAN]       closed flag
    cv_not_empty_,  \* [Queues -> SUBSET Threads] threads blocked in wait_and_pop
    cv_not_full_,   \* [Queues -> SUBSET Threads] threads blocked in push
    queues_alive,   \* work_queues not yet destroyed
    pc,             \* [Threads -> control point]
    task,           \* [Threads -> worker: the task it is executing; caller: the task it
                    \*  is pushing or the task its last removal returned]
    tgt,            \* [Threads -> caller: deque of its current or last call; worker: deque
                    \*  the task in execution was taken from]
    ret,            \* [Callers -> outcome of the caller's last deque call]
    wokenBy,        \* [Threads -> how the thread's blocking call was last woken]
    stop_source_,   \* ThreadPool::stop_source_ stop requested
    jstop,          \* [Workers -> BOOLEAN] stop state of jthread w (the worker's token)
    dtor,           \* control point of the pool's destruction
    di,             \* loop index of stop_workers / of the jthread vector destruction
    nextTask,       \* number of tasks created so far
    accepted,       \* history: tasks stored by push, in store order
    dropped,        \* history: tasks whose push returned without storing
    discarded,      \* history: [Queues -> tasks destroyed while resident in the deque]
    taken,          \* history: [Tasks -> number of removals that returned the task]
    runs,           \* history: [Tasks -> number of invocations of the task body]
    uaf,            \* history: threads that operated on a destroyed deque
    crashed,        \* the process was terminated by a fault
    closes,         \* history: [Queues -> number of close() calls made on the deque]
    rand_mut,       \* ThreadPool::rand_mut: the thread that holds it, or NoThread
    mut_            \* [Queues -> the thread that holds the deque's mutex, or NoThread]

dequeVars == <<deque_, done_, cv_not_empty_, cv_not_full_, queues_alive>>
threadVars == <<pc, task, tgt, ret, wokenBy>>
poolVars == <<stop_source_, jstop, dtor, di>>
histVars == <<nextTask, accepted, dropped, discarded, taken, runs, uaf, crashed, closes>>
vars == <<deque_, done_, cv_not_empty_, cv_not_full_, queues_alive,
          pc, task, tgt, ret, wokenBy, stop_source_, jstop, dtor, di,
          nextTask, accepted, dropped, discarded, taken, runs, uaf, crashed, closes,
          rand_mut, mut_>>
lockVars == <<rand_mut, mut_>>

\* State after ThreadPool::ThreadPool(): queues default-constructed, one worker
\* per index at the top of its loop, no task exists yet.
Init ==
    /\ deque_ = [q \in Queues |-> <<>>]
    /\ done_ = [q \in Queues |-> FALSE]
    /\ cv_not_empty_ = [q \in Queues |-> {}]
    /\ cv_not_full_ = [q \in Queues |-> {}]
    /\ queues_alive = TRUE
    /\ pc = [th \in Threads |-> IF th \in Workers THEN "loop" ELSE "idle"]
    /\ task = [th \in Threads |-> NoTask]
    /\ tgt = [th \in Threads |-> NoIndex]
    /\ ret = [c \in Callers |-> "none"]
    /\ wokenBy = [th \in Threads |-> "none"]
    /\ stop_source_ = FALSE
    /\ jstop = [w \in Workers |-> FALSE]
    /\ dtor = "alive"
    /\ di = 0
    /\ nextTask = 0
    /\ accepted = <<>>
    /\ dropped = {}
    /\ discarded = [q \in Queues |-> {}]
    /\ taken = [t \in Tasks |-> 0]
    /\ runs = [t \in Tasks |-> 0]
    /\ uaf = {}
    /\ crashed = FALSE
    /\ closes = [q \in Queues |-> 0]
    /\ rand_mut = NoThread
    /\ mut_ = [q \in Queues |-> NoThread]

\* ---- std::deque and std::condition_variable primitives ------------------

\* mutant: the owner side takes the front element
PopBack_takes_front(s) == [val |-> s[1], rest |-> SubSeq(s, 2, Len(s))]

\* mutant: the back element is read but not removed
PopBack_no_remove(s) == [val |-> s[Len(s)], rest |-> s]

\* deque_.back(); deque_.pop_back()
PopBack(s) == [val |-> s[Len(s)], rest |-> SubSeq(s, 1, Len(s) - 1)]

\* mutant: the front element is read but not removed
PopFront_no_remove(s) == [val |-> s[1], rest |-> s]

\* mutant: the steal side takes the back element
PopFront_takes_back(s) == [val |-> s[Len(s)], rest |-> SubSeq(s, 1, Len(s) - 1)]

\* deque_.front(); deque_.pop_front()
PopFront(s) == [val |-> s[1], rest |-> SubSeq(s, 2, Len(s))]

\* mutant: the notification is lost
notify_one_lost(ws) == {{}}

\* condition_variable::notify_one on wait set ws: the sets of threads it may
\* wake (nobody when nobody waits, otherwise any one waiter)
notify_one(ws) == IF ws = {} THEN {{}} ELSE {{w} : w \in ws}

\* mutant: only one waiter is woken
notify_all_wakes_one(ws) == IF ws = {} THEN {{}} ELSE {{w} : w \in ws}

\* condition_variable::notify_all on wait set ws
notify_all(ws) == {ws}

\* wokenBy after thread self ran a non-blocking deque call that woke the threads W
Wake(W, self) ==
    [x \in Threads |-> IF x \in W THEN "notify"
                       ELSE IF x = self THEN "none" ELSE wokenBy[x]]

\* wokenBy after a step of a blocking deque call that woke the threads W
WakeOthers(W) == [x \in Threads |-> IF x \in W THEN "notify" ELSE wokenBy[x]]

Blocked(th) == \E q \in Queues : th \in cv_not_empty_[q] \cup cv_not_full_[q]

\* ---- ThreadSafeDeque ----------------------------------------------------
\* Each operation is written for a calling thread th and a deque q; res is
\* what the call does: "wait" (the thread enters the condition variable's
\* wait set), or the way it returns.

\* mutant: the capacity test is off by one
push_pred_off_by_one(q) == done_[q] \/ Len(deque_[q]) <= max_size_

\* mutant: push never waits for a free slot
push_pred_never_waits(q) == TRUE

\* predicate of cv_not_full_.wait in push
push_pred(q) == done_[q] \/ Len(deque_[q]) < max_size_

\* mutant: push does not test done_ after the wait
push_stores_always(q) == TRUE

\* the `if (done_) return;` of push: TRUE when push goes on to store
push_stores(q) == ~done_[q]

\* predicate of cv_not_empty_.wait in wait_and_pop
wait_pred(q) == done_[q] \/ deque_[q] # <<>>

\* mutant: wait_and_pop gives up as soon as the deque is closed
wait_returns_false_when_done(q) == done_[q]

\* `if (done_ && deque_.empty()) return false;` of wait_and_pop
wait_returns_false(q) == done_[q] /\ deque_[q] = <<>>

\* push(value): task[th] is the value being pushed
push(th, q, res) ==
    IF ~push_pred(q)
    THEN /\ res = "wait"
         /\ cv_not_full_' = [cv_not_full_ EXCEPT ![q] = @ \cup {th}]
         /\ wokenBy' = [wokenBy EXCEPT ![th] = "none"]
         /\ UNCHANGED <<deque_, cv_not_empty_, task, accepted, dropped, taken>>
    ELSE IF ~push_stores(q)
    THEN /\ res = "dropped"
         /\ dropped' = dropped \cup {task[th]}
         /\ task' = [task EXCEPT ![th] = NoTask]
         /\ UNCHANGED <<deque_, cv_not_empty_, cv_not_full_, wokenBy, accepted, taken>>
    ELSE /\ res = "stored"
         /\ deque_' = [deque_ EXCEPT ![q] = Append(@, task[th])]
         /\ accepted' = Append(accepted, task[th])
         /\ task' = [task EXCEPT ![th] = NoTask]
         /\ \E W \in notify_one(cv_not_empty_[q]) :
               /\ cv_not_empty_' = [cv_not_empty_ EXCEPT ![q] = @ \ W]
               /\ wokenBy' = WakeOthers(W)
         /\ UNCHANGED <<cv_not_full_, dropped, taken>>

\* mutant: try_pop waits on cv_not_empty_ when the deque is empty
try_pop_waits(th, q, res) ==
    IF deque_[q] = <<>>
    THEN /\ res = "empty"
         /\ cv_not_empty_' = [cv_not_empty_ EXCEPT ![q] = @ \cup {th}]
         /\ wokenBy' = Wake({}, th)
         /\ UNCHANGED <<deque_, cv_not_full_, task, accepted, dropped, taken>>
    ELSE LET r == PopBack(deque_[q]) IN
         /\ res = "got"
         /\ deque_' = [deque_ EXCEPT ![q] = r.rest]
         /\ task' = [task EXCEPT ![th] = r.val]
         /\ taken' = [taken EXCEPT ![r.val] = @ + 1]
         /\ \E W \in notify_one(cv_not_full_[q]) :
               /\ cv_not_full_' = [cv_not_full_ EXCEPT ![q] = @ \ W]
               /\ wokenBy' = Wake(W, th)
         /\ UNCHANGED <<cv_not_empty_, accepted, dropped>>

\* try_pop(value)
try_pop(th, q, res) ==
    IF deque_[q] = <<>>
    THEN /\ res = "empty"
         /\ wokenBy' = Wake({}, th)
         /\ UNCHANGED <<deque_, cv_not_empty_, cv_not_full_, task, accepted, dropped, taken>>
    ELSE LET r == PopBack(deque_[q]) IN
         /\ res = "got"
         /\ deque_' = [deque_ EXCEPT ![q] = r.rest]
         /\ task' = [task EXCEPT ![th] = r.val]
         /\ taken' = [taken EXCEPT ![r.val] = @ + 1]
         /\ \E W \in notify_one(cv_not_full_[q]) :
               /\ cv_not_full_' = [cv_not_full_ EXCEPT ![q] = @ \ W]
               /\ wokenBy' = Wake(W, th)
         /\ UNCHANGED <<cv_not_empty_, accepted, dropped>>

\* mutant: try_steal gives nothing once the deque is closed
try_steal_refuses_closed(th, q, res) ==
    IF deque_[q] = <<>> \/ done_[q]
    THEN /\ res = "empty"
         /\ wokenBy' = Wake({}, th)
         /\ UNCHANGED <<deque_, cv_not_empty_, cv_not_full_, task, accepted, dropped, taken>>
    ELSE LET r == PopFront(deque_[q]) IN
         /\ res = "got"
         /\ deque_' = [deque_ EXCEPT ![q] = r.rest]
         /\ task' = [task EXCEPT ![th] = r.val]
         /\ taken' = [taken EXCEPT ![r.val] = @ + 1]
         /\ \E W \in notify_one(cv_not_full_[q]) :
               /\ cv_not_full_' = [cv_not_full_ EXCEPT ![q] = @ \ W]
               /\ wokenBy' = Wake(W, th)
         /\ UNCHANGED <<cv_not_empty_, accepted, dropped>>

\* try_steal(value)
try_steal(th, q, res) ==
    IF deque_[q] = <<>>
    THEN /\ res = "empty"
         /\ wokenBy' = Wake({}, th)
         /\ UNCHANGED <<deque_, cv_not_empty_, cv_not_full_, task, accepted, dropped, taken>>
    ELSE LET r == PopFront(deque_[q]) IN
         /\ res = "got"
         /\ deque_' = [deque_ EXCEPT ![q] = r.rest]
         /\ task' = [task EXCEPT ![th] = r.val]
         /\ taken' = [taken EXCEPT ![r.val] = @ + 1]
         /\ \E W \in notify_one(cv_not_full_[q]) :
               /\ cv_not_full_' = [cv_not_full_ EXCEPT ![q] = @ \ W]
               /\ wokenBy' = Wake(W, th)
         /\ UNCHANGED <<cv_not_empty_, accepted, dropped>>

\* wait_and_pop(value)
wait_and_pop(th, q, res) ==
    IF ~wait_pred(q)
    THEN /\ res = "wait"
         /\ cv_not_empty_' = [cv_not_empty_ EXCEPT ![q] = @ \cup {th}]
         /\ wokenBy' = [wokenBy EXCEPT ![th] = "none"]
         /\ UNCHANGED <<deque_, cv_not_full_, task, accepted, dropped, taken>>
    ELSE IF wait_returns_false(q)
    THEN /\ res = "empty"
         /\ UNCHANGED <<deque_, cv_not_empty_, cv_not_full_, wokenBy, task,
                        accepted, dropped, taken>>
    ELSE LET r == PopBack(deque_[q]) IN
         /\ res = "got"
         /\ deque_' = [deque_ EXCEPT ![q] = r.rest]
         /\ task' = [task EXCEPT ![th] = r.val]
         /\ taken' = [taken EXCEPT ![r.val] = @ + 1]
         /\ \E W \in notify_one(cv_not_full_[q]) :
               /\ cv_not_full_' = [cv_not_full_ EXCEPT ![q] = @ \ W]
               /\ wokenBy' = WakeOthers(W)
         /\ UNCHANGED <<cv_not_empty_, accepted, dropped>>

\* mutant: close flips the flag
set_done_toggles(d) == ~d

\* `done_ = true;` of close: the new value of the flag, given the old one
set_done(d) == TRUE

\* close()
close(q) ==
    /\ done_' = [done_ EXCEPT ![q] = set_done(@)]
    /\ closes' = [closes EXCEPT ![q] = @ + 1]
    /\ \E WE \in notify_all(cv_not_empty_[q]), WF \in notify_all(cv_not_full_[q]) :
          /\ cv_not_empty_' = [cv_not_empty_ EXCEPT ![q] = @ \ WE]
          /\ cv_not_full_' = [cv_not_full_ EXCEPT ![q] = @ \ WF]
          /\ wokenBy' = [x \in Threads |-> IF x \in WE \cup WF THEN "close" ELSE wokenBy[x]]

\* a spurious wake-up of a thread blocked in a condition-variable wait
\* (permitted by std::condition_variable::wait; the predicate is re-checked)
SpuriousWake(th) ==
    /\ ~crashed
    /\ \E q \in Queues :
          IF th \in cv_not_empty_[q]
          THEN /\ cv_not_empty_' = [cv_not_empty_ EXCEPT ![q] = @ \ {th}]
               /\ UNCHANGED cv_not_full_
          ELSE /\ th \in cv_not_full_[q]
               /\ cv_not_full_' = [cv_not_full_ EXCEPT ![q] = @ \ {th}]
               /\ UNCHANGED cv_not_empty_
    /\ wokenBy' = [wokenBy EXCEPT ![th] = "spurious"]
    /\ UNCHANGED <<deque_, done_, queues_alive, pc, task, tgt, ret,
                   stop_source_, jstop, dtor, di,
                   nextTask, accepted, dropped, discarded, taken, runs, uaf, crashed, closes>>
    /\ UNCHANGED lockVars

\* ---- ThreadPool ---------------------------------------------------------

\* thread_count = std::max(1, (int)std::thread::hardware_concurrency()) for a
\* platform that reports hw (0 when the value is not computable)
thread_count_for(hw) == IF 1 < hw THEN hw ELSE 1

\* mutant: the upper limit is drawn one too far
uniform_int_distribution_past_end(a, b) == a .. (b + 1)

\* the values std::uniform_int_distribution<int>(a, b) can produce
uniform_int_distribution(a, b) == a .. b

\* get_random(): the indices uniform_int_distribution(0, thread_count - 1) can draw
get_random == uniform_int_distribution(0, thread_count - 1)

\* mutant: the worker's token always reports a stop request
stop_requested_always(w) == TRUE

\* token.stop_requested() in worker w: the token is the one std::jthread hands
\* to the thread's callable, i.e. the stop state of jthread w itself
stop_requested(w) == jstop[w]

\* mutant: the thread is not waited for
join_no_wait(w) == TRUE

\* std::jthread::join() on worker w returns once the worker function has returned
join(w) == pc[w] = "exit"

\* mutant: the task body is invoked twice
Invoke_twice(w, q, res) ==
    IF res = "got"
    THEN /\ runs' = [runs EXCEPT ![task'[w]] = @ + 2]
         /\ tgt' = [tgt EXCEPT ![w] = q]
    ELSE UNCHANGED <<runs, tgt>>

\* task() on worker w: the body of the task just removed from deque q starts
Invoke(w, q, res) ==
    IF res = "got"
    THEN /\ runs' = [runs EXCEPT ![task'[w]] = @ + 1]
         /\ tgt' = [tgt EXCEPT ![w] = q]
    ELSE UNCHANGED <<runs, tgt>>

\* while (!token.stop_requested()) at the top of the worker loop
WorkerLoop(w) ==
    /\ ~crashed
    /\ pc[w] = "loop"
    /\ pc' = [pc EXCEPT ![w] = IF stop_requested(w) THEN "exit" ELSE "try_pop"]
    /\ UNCHANGED <<dequeVars, task, tgt, ret, wokenBy, poolVars, histVars>>
    /\ UNCHANGED lockVars

\* mutant: after an empty try_pop the worker blocks without trying to steal
WorkerTryPop_skips_steal(w) ==
    /\ ~crashed
    /\ pc[w] = "try_pop"
    /\ queues_alive
    /\ \E res \in {"got", "empty"} :
          /\ try_pop(w, w, res)
          /\ Invoke(w, w, res)
          /\ pc' = [pc EXCEPT ![w] = IF res = "got" THEN "exec" ELSE "wait_and_pop"]
    /\ UNCHANGED <<done_, queues_alive, ret, poolVars, nextTask, discarded, uaf, crashed, closes>>
    /\ UNCHANGED lockVars

\* 1. if (work_queues[idx].try_pop(task)) { task(); continue; }
WorkerTryPop(w) ==
    /\ ~crashed
    /\ pc[w] = "try_pop"
    /\ queues_alive
    /\ \E res \in {"got", "empty"} :
          /\ try_pop(w, w, res)
          /\ Invoke(w, w, res)
          /\ pc' = [pc EXCEPT ![w] = IF res = "got" THEN "exec" ELSE "try_steal"]
    /\ UNCHANGED <<done_, queues_alive, ret, poolVars, nextTask, discarded, uaf, crashed, closes>>
    /\ UNCHANGED lockVars

\* 2. int i = get_random(); if (work_queues[i].try_steal(task)) { task(); continue; }
WorkerTrySteal(w) ==
    /\ ~crashed
    /\ pc[w] = "try_steal"
    /\ queues_alive
    /\ \E i \in get_random, res \in {"got", "empty"} :
          /\ try_steal(w, i, res)
          /\ Invoke(w, i, res)
          /\ pc' = [pc EXCEPT ![w] = IF res = "got" THEN "exec" ELSE "wait_and_pop"]
    /\ UNCHANGED <<done_, queues_alive, ret, poolVars, nextTask, discarded, uaf, crashed, closes>>
    /\ UNCHANGED lockVars

\* mutant: instead of staying blocked the worker goes round its loop again
WorkerWaitAndPop_spins(w) ==
    /\ ~crashed
    /\ pc[w] = "wait_and_pop"
    /\ w \notin cv_not_empty_[w]
    /\ queues_alive
    /\ \E res \in {"wait", "got", "empty"} :
          /\ wait_and_pop(w, w, res)
          /\ Invoke(w, w, res)
          /\ pc' = [pc EXCEPT ![w] = CASE res = "got" -> "exec"
                                       [] res = "empty" -> "exit"
                                       [] OTHER -> "loop"]
    /\ UNCHANGED <<done_, queues_alive, ret, poolVars, nextTask, discarded, uaf, crashed, closes>>
    /\ UNCHANGED lockVars

\* 3. if (!work_queues[idx].wait_and_pop(task)) break; if (task) task();
WorkerWaitAndPop(w) ==
    /\ ~crashed
    /\ pc[w] = "wait_and_pop"
    /\ w \notin cv_not_empty_[w]
    /\ queues_alive
    /\ \E res \in {"wait", "got", "empty"} :
          /\ wait_and_pop(w, w, res)
          /\ Invoke(w, w, res)
          /\ pc' = [pc EXCEPT ![w] = CASE res = "got" -> "exec"
                                       [] res = "empty" -> "exit"
                                       [] OTHER -> "wait_and_pop"]
    /\ UNCHANGED <<done_, queues_alive, ret, poolVars, nextTask, discarded, uaf, crashed, closes>>
    /\ UNCHANGED lockVars

\* the task body running on worker w returns; the loop local i goes out of scope
WorkerFinish(w) ==
    /\ ~crashed
    /\ pc[w] = "exec"
    /\ pc' = [pc EXCEPT ![w] = "loop"]
    /\ task' = [task EXCEPT ![w] = NoTask]
    /\ tgt' = [tgt EXCEPT ![w] = NoIndex]
    /\ wokenBy' = [wokenBy EXCEPT ![w] = "none"]
    /\ UNCHANGED <<dequeVars, ret, poolVars, histVars>>
    /\ UNCHANGED lockVars

\* submit(func) by caller c up to the call of push: int i = get_random();
Submit(c) ==
    /\ ~crashed
    /\ pc[c] = "idle"
    /\ dtor = "alive"
    /\ nextTask < MaxSubmits
    /\ \E i \in get_random : tgt' = [tgt EXCEPT ![c] = i]
    /\ nextTask' = nextTask + 1
    /\ task' = [task EXCEPT ![c] = nextTask + 1]
    /\ pc' = [pc EXCEPT ![c] = "push"]
    /\ wokenBy' = [wokenBy EXCEPT ![c] = "none"]
    /\ ret' = [ret EXCEPT ![c] = "none"]
    /\ UNCHANGED <<dequeVars, poolVars, accepted, dropped, discarded, taken, runs,
                   uaf, crashed, closes>>
    /\ UNCHANGED lockVars

\* work_queues[i].push(std::move(func)) by caller c
CallerPush(c) ==
    /\ ~crashed
    /\ pc[c] = "push"
    /\ c \notin cv_not_full_[tgt[c]]
    /\ queues_alive
    /\ \E res \in {"wait", "stored", "dropped"} :
          /\ push(c, tgt[c], res)
          /\ pc' = [pc EXCEPT ![c] = IF res = "wait" THEN "push" ELSE "idle"]
          /\ ret' = [ret EXCEPT ![c] = "push_" \o res]
    /\ UNCHANGED <<done_, queues_alive, tgt, poolVars,
                   nextTask, discarded, runs, uaf, crashed, closes>>
    /\ UNCHANGED lockVars

\* ---- destruction of the pool -------------------------------------------
\* ~ThreadPool() runs its body and then destroys the members in reverse order
\* of declaration (stop_source_, threads, work_queues, mt, rand_mut,
\* thread_count): work_queues is destroyed before threads, and the jthreads
\* of threads request stop and join in their own destructors.

\* stop_source_.request_stop();
DtorRequestStop ==
    /\ ~crashed
    /\ dtor = "alive"
    /\ stop_source_' = TRUE
    /\ dtor' = "stop_workers"
    /\ di' = 0
    /\ UNCHANGED <<dequeVars, threadVars, jstop, histVars>>
    /\ UNCHANGED lockVars

\* mutant: stop_workers returns after closing the first deque
stop_workers_closes_one ==
    /\ ~crashed
    /\ dtor = "stop_workers"
    /\ close(di)
    /\ IF FALSE
       THEN di' = di + 1 /\ dtor' = dtor
       ELSE di' = 0 /\ dtor' = "members"
    /\ UNCHANGED <<deque_, queues_alive, pc, task, tgt, ret, stop_source_, jstop,
                   nextTask, accepted, dropped, discarded, taken, runs, uaf, crashed>>
    /\ UNCHANGED lockVars

\* stop_workers(): for (i = 0; i < thread_count; ++i) work_queues[i].close();
stop_workers ==
    /\ ~crashed
    /\ dtor = "stop_workers"
    /\ close(di)
    /\ IF di + 1 < thread_count
       THEN di' = di + 1 /\ dtor' = dtor
       ELSE di' = 0 /\ dtor' = "members"
    /\ UNCHANGED <<deque_, queues_alive, pc, task, tgt, ret, stop_source_, jstop,
                   nextTask, accepted, dropped, discarded, taken, runs, uaf, crashed>>
    /\ UNCHANGED lockVars

\* ~unique_ptr<Queue[]>: every deque is destroyed with the tasks still in it
DestroyQueues ==
    /\ ~crashed
    /\ dtor = "members"
    /\ queues_alive' = FALSE
    /\ discarded' = [q \in Queues |->
                        discarded[q] \cup {deque_[q][k] : k \in 1 .. Len(deque_[q])}]
    /\ deque_' = [q \in Queues |-> <<>>]
    /\ dtor' = "jthreads"
    /\ di' = 0
    /\ UNCHANGED <<done_, cv_not_empty_, cv_not_full_, threadVars, stop_source_, jstop,
                   nextTask, accepted, dropped, taken, runs, uaf, crashed, closes>>
    /\ UNCHANGED lockVars

\* ~jthread of threads[di]: request_stop() ...
JthreadRequestStop ==
    /\ ~crashed
    /\ dtor = "jthreads"
    /\ ~jstop[di]
    /\ jstop' = [jstop EXCEPT ![di] = TRUE]
    /\ UNCHANGED <<dequeVars, threadVars, stop_source_, dtor, di, histVars>>
    /\ UNCHANGED lockVars

\* ... then join(); after the last jthread the pool is destroyed
JthreadJoin ==
    /\ ~crashed
    /\ dtor = "jthreads"
    /\ jstop[di]
    /\ join(di)
    /\ IF di + 1 < thread_count
       THEN di' = di + 1 /\ dtor' = dtor
       ELSE di' = di /\ dtor' = "destroyed"
    /\ UNCHANGED <<dequeVars, threadVars, stop_source_, jstop, histVars>>
    /\ UNCHANGED lockVars

\* A deque call on a destroyed deque is undefined behaviour. The outcomes
\* modelled: the process faults (e.g. the freed deque still looks non-empty and
\* the stale element is dereferenced) and is terminated with all its threads,
\* or the call reads the stale memory of a closed, cleared deque and returns
\* as on a closed empty deque.
DestroyedDequeAccess(th) ==
    /\ ~crashed
    /\ ~queues_alive
    /\ pc[th] \in {"try_pop", "try_steal", "wait_and_pop", "push"}
    /\ ~Blocked(th)
    /\ uaf' = uaf \cup {th}
    /\ \/ /\ crashed' = TRUE
          /\ pc' = [x \in Threads |-> IF pc[x] = "exit" THEN "exit" ELSE "terminated"]
          /\ task' = [x \in Threads |-> NoTask]
          /\ tgt' = [x \in Threads |-> NoIndex]
          /\ ret' = [c \in Callers |-> "none"]
          /\ wokenBy' = [x \in Threads |-> "none"]
          /\ UNCHANGED dropped
       \/ /\ crashed' = crashed
          /\ pc' = [pc EXCEPT ![th] = CASE pc[th] = "try_pop" -> "try_steal"
                                        [] pc[th] = "try_steal" -> "wait_and_pop"
                                        [] pc[th] = "wait_and_pop" -> "exit"
                                        [] OTHER -> "idle"]
          /\ ret' = IF pc[th] = "push" THEN [ret EXCEPT ![th] = "push_dropped"] ELSE ret
          /\ dropped' = IF pc[th] = "push" THEN dropped \cup {task[th]} ELSE dropped
          /\ task' = IF pc[th] = "push" THEN [task EXCEPT ![th] = NoTask] ELSE task
          /\ UNCHANGED <<tgt, wokenBy>>
    /\ UNCHANGED <<dequeVars, poolVars, nextTask, accepted, discarded, taken, runs, closes>>
    /\ UNCHANGED lockVars

\* ---- direct use of the ThreadSafeDeque interface by arbitrary threads ----

\* the deque that is used directly
TestQueue == CHOOSE q \in Queues : \A r \in Queues : q <= r

\* caller c calls push on deque q with a new task
CallPush(c, q) ==
    /\ pc[c] = "idle"
    /\ nextTask < MaxTasks
    /\ tgt' = [tgt EXCEPT ![c] = q]
    /\ nextTask' = nextTask + 1
    /\ task' = [task EXCEPT ![c] = nextTask + 1]
    /\ pc' = [pc EXCEPT ![c] = "push"]
    /\ wokenBy' = [wokenBy EXCEPT ![c] = "none"]
    /\ ret' = [ret EXCEPT ![c] = "none"]
    /\ UNCHANGED <<dequeVars, poolVars, accepted, dropped, discarded, taken, runs,
                   uaf, crashed, closes>>
    /\ UNCHANGED lockVars

\* caller c calls try_pop on deque q
CallTryPop(c, q) ==
    /\ pc[c] = "idle"
    /\ \E res \in {"got", "empty"} :
          /\ try_pop(c, q, res)
          /\ ret' = [ret EXCEPT ![c] = "pop_" \o res]
    /\ tgt' = [tgt EXCEPT ![c] = q]
    /\ UNCHANGED <<done_, queues_alive, pc, poolVars, nextTask, discarded, runs, uaf, crashed, closes>>
    /\ UNCHANGED lockVars

\* caller c calls try_steal on deque q
CallTrySteal(c, q) ==
    /\ pc[c] = "idle"
    /\ \E res \in {"got", "empty"} :
          /\ try_steal(c, q, res)
          /\ ret' = [ret EXCEPT ![c] = "steal_" \o res]
    /\ tgt' = [tgt EXCEPT ![c] = q]
    /\ UNCHANGED <<done_, queues_alive, pc, poolVars, nextTask, discarded, runs, uaf, crashed, closes>>
    /\ UNCHANGED lockVars

\* caller c enters wait_and_pop on deque q
CallWaitAndPop(c, q) ==
    /\ pc[c] = "idle"
    /\ pc' = [pc EXCEPT ![c] = "wait_and_pop"]
    /\ tgt' = [tgt EXCEPT ![c] = q]
    /\ wokenBy' = [wokenBy EXCEPT ![c] = "none"]
    /\ ret' = [ret EXCEPT ![c] = "none"]
    /\ UNCHANGED <<dequeVars, task, poolVars, histVars>>
    /\ UNCHANGED lockVars

\* caller c inside wait_and_pop: first check of the predicate, or re-check
\* after a wake-up
CallerWaitAndPop(c) ==
    /\ pc[c] = "wait_and_pop"
    /\ c \notin cv_not_empty_[tgt[c]]
    /\ \E res \in {"wait", "got", "empty"} :
          /\ wait_and_pop(c, tgt[c], res)
          /\ pc' = [pc EXCEPT ![c] = IF res = "wait" THEN "wait_and_pop" ELSE "idle"]
          /\ ret' = [ret EXCEPT ![c] = "wait_" \o res]
    /\ UNCHANGED <<done_, queues_alive, tgt, poolVars, nextTask, discarded, runs, uaf, crashed, closes>>
    /\ UNCHANGED lockVars

\* some thread calls close on deque q
CallClose(q) ==
    /\ closes[q] < MaxCloses
    /\ close(q)
    /\ UNCHANGED <<deque_, queues_alive, pc, task, tgt, ret, poolVars,
                   nextTask, accepted, dropped, discarded, taken, runs, uaf, crashed>>
    /\ UNCHANGED lockVars

\* ---- specifications -----------------------------------------------------

WorkerStep(w) ==
    \/ WorkerLoop(w)
    \/ WorkerTryPop(w)
    \/ WorkerTrySteal(w)
    \/ WorkerWaitAndPop(w)
    \/ WorkerFinish(w)

CallerStep(c) ==
    \/ Submit(c)
    \/ CallerPush(c)

\* the pool in operation, no destruction
RunNext ==
    \/ \E w \in Workers : WorkerStep(w)
    \/ \E c \in Submitters : CallerStep(c)
    \/ \E th \in Threads : SpuriousWake(th)

\* the pool from construction to the end of its destruction
Next ==
    \/ \E w \in Workers : WorkerStep(w)
    \/ \E c \in Submitters : CallerStep(c)
    \/ \E th \in Threads : SpuriousWake(th)
    \/ DtorRequestStop
    \/ stop_workers
    \/ DestroyQueues
    \/ JthreadRequestStop
    \/ JthreadJoin
    \/ \E th \in Threads : DestroyedDequeAccess(th)

Spec == Init /\ [][Next]_vars

\* every thread that can run eventually runs (OS threads, preemptive scheduling)
LiveSpec ==
    /\ Init
    /\ [][RunNext]_vars
    /\ \A w \in Workers : WF_vars(WorkerStep(w))
    /\ \A c \in Submitters : WF_vars(CallerStep(c))

\* the steps of the thread that destroys the pool, once ~ThreadPool() has begun
TeardownStep ==
    \/ stop_workers
    \/ DestroyQueues
    \/ JthreadRequestStop
    \/ JthreadJoin

\* the pool's lifetime with every thread scheduled fairly: a running task body
\* returns, a thread inside a deque call takes its next step, and the
\* destroying thread goes on once it has begun
TeardownSpec ==
    /\ Init
    /\ [][Next]_vars
    /\ \A w \in Workers : WF_vars(WorkerStep(w))
    /\ \A c \in Submitters : WF_vars(CallerStep(c))
    /\ \A th \in Threads : WF_vars(DestroyedDequeAccess(th))
    /\ WF_vars(TeardownStep)

\* the task whose body never returns
HungTask == CHOOSE t \in Tasks : \A u \in Tasks : t <= u

\* the task body running on worker w returns, unless it is the one that hangs
TaskReturns(w) == task[w] # HungTask /\ WorkerFinish(w)

HungWorkerStep(w) ==
    \/ WorkerLoop(w)
    \/ WorkerTryPop(w)
    \/ WorkerTrySteal(w)
    \/ WorkerWaitAndPop(w)
    \/ TaskReturns(w)

\* the pool's lifetime when the body of HungTask never returns
HungNext ==
    \/ \E w \in Workers : HungWorkerStep(w)
    \/ \E c \in Submitters : CallerStep(c)
    \/ \E th \in Threads : SpuriousWake(th)
    \/ DtorRequestStop
    \/ TeardownStep
    \/ \E th \in Threads : DestroyedDequeAccess(th)

\* ... with every thread scheduled fairly
HungSpec ==
    /\ Init
    /\ [][HungNext]_vars
    /\ \A w \in Workers : WF_vars(HungWorkerStep(w))
    /\ \A c \in Submitters : WF_vars(CallerStep(c))
    /\ \A th \in Threads : WF_vars(DestroyedDequeAccess(th))
    /\ WF_vars(TeardownStep)

\* the pool in operation (no destruction) when the body of HungTask never returns
HungRunNext ==
    \/ \E w \in Workers : HungWorkerStep(w)
    \/ \E c \in Submitters : CallerStep(c)
    \/ \E th \in Threads : SpuriousWake(th)

\* ... with every thread scheduled fairly
HungRunSpec ==
    /\ Init
    /\ [][HungRunNext]_vars
    /\ \A w \in Workers : WF_vars(HungWorkerStep(w))
    /\ \A c \in Submitters : WF_vars(CallerStep(c))

\* ---- the pool at the granularity of its mutexes ---------------------------
\* Here a lock acquisition is a step of its own: the control points named
\* "..._lock" are a thread about to lock a mutex (or to re-lock it after a
\* condition-variable wait), "..._cs" a thread inside the critical section.

\* the deque whose mutex thread th is about to lock or holds
LockTarget(th) ==
    IF th \in Workers /\ pc[th] \in {"try_pop_lock", "try_pop_cs",
                                     "wait_and_pop_lock", "wait_and_pop_cs"}
    THEN th
    ELSE tgt[th]

\* submit(func) is called by c
LockSubmit(c) ==
    /\ pc[c] = "idle"
    /\ nextTask < MaxSubmits
    /\ nextTask' = nextTask + 1
    /\ task' = [task EXCEPT ![c] = nextTask + 1]
    /\ pc' = [pc EXCEPT ![c] = "get_random_lock"]
    /\ wokenBy' = [wokenBy EXCEPT ![c] = "none"]
    /\ ret' = [ret EXCEPT ![c] = "none"]
    /\ UNCHANGED <<dequeVars, tgt, poolVars, accepted, dropped, discarded, taken, runs,
                   uaf, crashed, closes, lockVars>>

\* get_random(): std::lock_guard<std::mutex> lck_guard(rand_mut);
GetRandomLock(th) ==
    /\ pc[th] = "get_random_lock"
    /\ rand_mut = NoThread
    /\ rand_mut' = th
    /\ pc' = [pc EXCEPT ![th] = "get_random_cs"]
    /\ UNCHANGED <<dequeVars, task, tgt, ret, wokenBy, poolVars, histVars, mut_>>

\* mutant: the index is drawn but rand_mut is kept by the caller
GetRandomDraw_keeps_lock(th) ==
    /\ pc[th] = "get_random_cs"
    /\ rand_mut = th
    /\ \E i \in get_random : tgt' = [tgt EXCEPT ![th] = i]
    /\ rand_mut' = rand_mut
    /\ pc' = [pc EXCEPT ![th] = IF th \in Workers THEN "try_steal_lock" ELSE "push_lock"]
    /\ UNCHANGED <<dequeVars, task, ret, wokenBy, poolVars, histVars, mut_>>

\* get_random(): return dist(mt); the lock_guard releases rand_mut on return
GetRandomDraw(th) ==
    /\ pc[th] = "get_random_cs"
    /\ rand_mut = th
    /\ \E i \in get_random : tgt' = [tgt EXCEPT ![th] = i]
    /\ rand_mut' = NoThread
    /\ pc' = [pc EXCEPT ![th] = IF th \in Workers THEN "try_steal_lock" ELSE "push_lock"]
    /\ UNCHANGED <<dequeVars, task, ret, wokenBy, poolVars, histVars, mut_>>

\* std::unique_lock / std::lock_guard on the deque's mut_ at the start of a
\* deque operation, and the re-lock when a condition-variable wait ends
MutexLock(th) ==
    /\ pc[th] \in {"push_lock", "try_pop_lock", "try_steal_lock", "wait_and_pop_lock"}
    /\ ~Blocked(th)
    /\ mut_[LockTarget(th)] = NoThread
    /\ mut_' = [mut_ EXCEPT ![LockTarget(th)] = th]
    /\ pc' = [pc EXCEPT ![th] = CASE pc[th] = "push_lock" -> "push_cs"
                                  [] pc[th] = "try_pop_lock" -> "try_pop_cs"
                                  [] pc[th] = "try_steal_lock" -> "try_steal_cs"
                                  [] OTHER -> "wait_and_pop_cs"]
    /\ UNCHANGED <<dequeVars, task, tgt, ret, wokenBy, poolVars, histVars, rand_mut>>

\* push inside its critical section: the wait releases mut_, a return unlocks it
LockedPush(c) ==
    /\ pc[c] = "push_cs"
    /\ mut_[tgt[c]] = c
    /\ \E res \in {"wait", "stored", "dropped"} :
          /\ push(c, tgt[c], res)
          /\ pc' = [pc EXCEPT ![c] = IF res = "wait" THEN "push_lock" ELSE "idle"]
          /\ ret' = [ret EXCEPT ![c] = "push_" \o res]
    /\ mut_' = [mut_ EXCEPT ![tgt[c]] = NoThread]
    /\ UNCHANGED <<done_, queues_alive, tgt, poolVars,
                   nextTask, discarded, runs, uaf, crashed, closes, rand_mut>>

\* while (!token.stop_requested()), then the call of try_pop
LockedWorkerLoop(w) ==
    /\ pc[w] = "loop"
    /\ pc' = [pc EXCEPT ![w] = IF stop_requested(w) THEN "exit" ELSE "try_pop_lock"]
    /\ UNCHANGED <<dequeVars, task, tgt, ret, wokenBy, poolVars, histVars, lockVars>>

\* try_pop on the worker's own deque inside its critical section
LockedTryPop(w) ==
    /\ pc[w] = "try_pop_cs"
    /\ mut_[w] = w
    /\ \E res \in {"got", "empty"} :
          /\ try_pop(w, w, res)
          /\ Invoke(w, w, res)
          /\ pc' = [pc EXCEPT ![w] = IF res = "got" THEN "exec" ELSE "get_random_lock"]
    /\ mut_' = [mut_ EXCEPT ![w] = NoThread]
    /\ UNCHANGED <<done_, queues_alive, ret, poolVars, nextTask, discarded, uaf, crashed,
                   closes, rand_mut>>

\* try_steal on the drawn deque inside its critical section
LockedTrySteal(w) ==
    /\ pc[w] = "try_steal_cs"
    /\ mut_[tgt[w]] = w
    /\ \E res \in {"got", "empty"} :
          /\ try_steal(w, tgt[w], res)
          /\ IF res = "got"
             THEN /\ runs' = [runs EXCEPT ![task'[w]] = @ + 1]
                  /\ tgt' = tgt
             ELSE /\ runs' = runs
                  /\ tgt' = [tgt EXCEPT ![w] = NoIndex]
          /\ pc' = [pc EXCEPT ![w] = IF res = "got" THEN "exec" ELSE "wait_and_pop_lock"]
    /\ mut_' = [mut_ EXCEPT ![tgt[w]] = NoThread]
    /\ UNCHANGED <<done_, queues_alive, ret, poolVars, nextTask, discarded, uaf, crashed,
                   closes, rand_mut>>

\* wait_and_pop on the worker's own deque inside its critical section
LockedWaitAndPop(w) ==
    /\ pc[w] = "wait_and_pop_cs"
    /\ mut_[w] = w
    /\ \E res \in {"wait", "got", "empty"} :
          /\ wait_and_pop(w, w, res)
          /\ Invoke(w, w, res)
          /\ pc' = [pc EXCEPT ![w] = CASE res = "got" -> "exec"
                                       [] res = "empty" -> "exit"
                                       [] OTHER -> "wait_and_pop_lock"]
    /\ mut_' = [mut_ EXCEPT ![w] = NoThread]
    /\ UNCHANGED <<done_, queues_alive, ret, poolVars, nextTask, discarded, uaf, crashed,
                   closes, rand_mut>>

LockWorkerStep(w) ==
    \/ LockedWorkerLoop(w)
    \/ MutexLock(w)
    \/ LockedTryPop(w)
    \/ GetRandomLock(w)
    \/ GetRandomDraw(w)
    \/ LockedTrySteal(w)
    \/ LockedWaitAndPop(w)
    \/ WorkerFinish(w)

LockCallerStep(c) ==
    \/ LockSubmit(c)
    \/ GetRandomLock(c)
    \/ GetRandomDraw(c)
    \/ MutexLock(c)
    \/ LockedPush(c)

LockNext ==
    \/ \E w \in Workers : LockWorkerStep(w)
    \/ \E c \in Submitters : LockCallerStep(c)
    \/ \E th \in Threads : SpuriousWake(th)

\* the pool in operation, every lock acquisition a step
LockSpec == Init /\ [][LockNext]_vars

\* one deque used directly through its public interface by NumCallers threads
DequeNext ==
    \/ \E c \in Callers : CallPush(c, TestQueue)
    \/ \E c \in Callers : CallerPush(c)
    \/ \E c \in Callers : CallTryPop(c, TestQueue)
    \/ \E c \in Callers : CallTrySteal(c, TestQueue)
    \/ \E c \in Callers : CallWaitAndPop(c, TestQueue)
    \/ \E c \in Callers : CallerWaitAndPop(c)
    \/ CallClose(TestQueue)
    \/ \E c \in Callers : SpuriousWake(c)

DequeSpec ==
    /\ Init
    /\ [][DequeNext]_vars
    /\ \A c \in Callers : WF_vars(CallerPush(c) \/ CallerWaitAndPop(c))

\* ---- properties ---------------------------------------------------------

\* position of task t in the store order
Position(t) == CHOOSE i \in 1 .. Len(accepted) : accepted[i] = t

Resident(q) == {deque_[q][k] : k \in 1 .. Len(deque_[q])}

\* the resident task of q that was stored last / first
MostRecent(q) == CHOOSE t \in Resident(q) : \A u \in Resident(q) : Position(u) <= Position(t)
Oldest(q) == CHOOSE t \in Resident(q) : \A u \in Resident(q) : Position(t) <= Position(u)

\* sequence s without its element at index k
Without(s, k) == SubSeq(s, 1, k - 1) \o SubSeq(s, k + 1, Len(s))

\* C1: across all interleavings of submit calls and worker removals, no task is
\* returned by two removal operations and no task body is invoked more than once.
C1_AtMostOnce == \A t \in Tasks : taken[t] <= 1 /\ runs[t] <= 1

\* every task has run once, two workers took part and one task was stolen
C1_Witness ==
    /\ \A t \in Submitted : runs[t] = 1
    /\ \E w \in Workers : pc[w] = "exec" /\ tgt[w] # w
    /\ \E w \in Workers : pc[w] = "exec" /\ tgt[w] = w

\* C2: with no shutdown and fair scheduling, every submitted task is eventually
\* executed, whatever deque it is routed to and also when its push had to wait.
C2_AllSubmittedRun == \A t \in Tasks : (nextTask >= t) ~> (runs[t] >= 1)

\* all tasks have run and a submitter had been blocked on a full deque
C2_Witness ==
    /\ \A t \in Submitted : runs[t] = 1
    /\ \E c \in Submitters : wokenBy[c] = "notify" /\ pc[c] = "idle"

\* C3: when the destruction of the pool completes, every task that a push
\* stored has been executed.
C3_AcceptedRunBeforeTeardownEnds ==
    dtor = "destroyed" => \A k \in 1 .. Len(accepted) : runs[accepted[k]] >= 1

\* C4: when the destruction of the pool has completed, every worker has left
\* its loop: none is executing a task or inside a deque call.
C4_WorkersExitedAtTeardown == dtor = "destroyed" => \A w \in Workers : pc[w] = "exit"

\* destruction completed; one worker had been blocked in wait_and_pop and was
\* woken by close, another left through the stop check after running a task
C4_Witness ==
    /\ dtor = "destroyed"
    /\ \E w \in Workers : wokenBy[w] = "close"
    /\ \E w \in Workers : wokenBy[w] = "none" /\ \E t \in Tasks : runs[t] = 1

\* C5: no worker performs try_pop, try_steal or wait_and_pop on a deque that
\* has been destroyed (every worker is joined before the deques are destroyed).
C5_NoWorkerUsesDestroyedDeque == uaf \cap Workers = {}

\* C6: after close, a thread that was blocked in wait_and_pop on the empty deque
\* returns the empty result, a thread that was blocked in push returns without
\* storing, and no thread stays in a wait set of a closed deque.
C6_CloseUnblocks ==
    /\ \A c \in Callers :
          (pc[c] = "wait_and_pop" /\ wokenBy[c] = "close" /\ deque_[tgt[c]] = <<>>)
             ~> (pc[c] = "idle" /\ ret[c] = "wait_empty")
    /\ \A c \in Callers :
          (pc[c] = "push" /\ wokenBy[c] = "close")
             ~> (pc[c] = "idle" /\ ret[c] = "push_dropped")
    /\ \A c \in Callers :
          (pc[c] \in {"push", "wait_and_pop"} /\ done_[tgt[c]]) ~> (pc[c] = "idle")
    /\ [](\A q \in Queues : done_[q] => cv_not_empty_[q] = {} /\ cv_not_full_[q] = {})

\* two threads were blocked in wait_and_pop on the empty deque, close woke
\* both, and both have returned the empty result
C6_Witness ==
    \A c \in Callers : pc[c] = "idle" /\ ret[c] = "wait_empty" /\ wokenBy[c] = "close"

\* C7: the number of tasks resident in a deque never exceeds its capacity.
C7_CapacityBound == \A q \in Queues : Len(deque_[q]) <= max_size_

\* a full deque with a pusher blocked on it
C7_Witness ==
    \E q \in Queues : Len(deque_[q]) = max_size_ /\ cv_not_full_[q] # {}

\* C8: a push that finds the deque closed returns without storing its task and
\* leaves the deque unchanged, and a closed deque never grows.
C8_ClosedPushDrops ==
    [][ /\ \A q \in Queues : done_[q] => Len(deque_'[q]) <= Len(deque_[q])
        /\ \A c \in Callers :
              (pc[c] = "push" /\ pc'[c] = "idle" /\ done_[tgt[c]])
                 => /\ deque_' = deque_
                    /\ accepted' = accepted
                    /\ ret'[c] = "push_dropped"
                    /\ task[c] \in dropped' ]_vars

\* one push was woken by close and dropped its task, another was called after
\* close and dropped its task
C8_Witness ==
    /\ \E c \in Callers : ret[c] = "push_dropped" /\ wokenBy[c] = "close"
    /\ \E c \in Callers : ret[c] = "push_dropped" /\ wokenBy[c] = "none"

\* C9: try_pop and wait_and_pop return the most recently pushed task that is
\* still resident and remove exactly that task, so successive owner pops
\* return resident tasks in reverse push order.
C9_OwnerPopTakesNewest ==
    [][ \A c \in Callers :
           ( /\ CallTryPop(c, TestQueue) \/ CallerWaitAndPop(c)
             /\ ret'[c] \in {"pop_got", "wait_got"} )
              => /\ task'[c] = MostRecent(TestQueue)
                 /\ task'[c] = deque_[TestQueue][Len(deque_[TestQueue])]
                 /\ deque_'[TestQueue] = Without(deque_[TestQueue], Len(deque_[TestQueue])) ]_vars

\* an owner pop returned the newer of two resident tasks; the older is still resident
C9_Witness ==
    \E c \in Callers :
        /\ ret[c] \in {"pop_got", "wait_got"}
        /\ pc[c] = "idle"
        /\ deque_[TestQueue] # <<>>
        /\ \A u \in Resident(TestQueue) : Position(u) < Position(task[c])

\* C10: try_steal returns the oldest task still resident and removes exactly
\* that task, so successive steals return resident tasks in push order,
\* whatever owner pops happen at the back in between.
C10_StealTakesOldest ==
    [][ \A c \in Callers :
           ( /\ CallTrySteal(c, TestQueue)
             /\ ret'[c] = "steal_got" )
              => /\ task'[c] = Oldest(TestQueue)
                 /\ task'[c] = deque_[TestQueue][1]
                 /\ deque_'[TestQueue] = Without(deque_[TestQueue], 1) ]_vars

\* a steal returned the older of two resident tasks; the newer is still resident
C10_Witness ==
    \E c \in Callers :
        /\ ret[c] = "steal_got"
        /\ deque_[TestQueue] # <<>>
        /\ \A u \in Resident(TestQueue) : Position(task[c]) < Position(u)

\* C11: a push onto an open deque below capacity stores its task at once; while
\* the deque is open and full a pending push neither stores nor returns, whatever
\* step is taken; a deque only shrinks by a removal that returns a task, and the
\* store of a push is a step of its own, distinct from every removal.
C11_Backpressure ==
    [][ /\ \A c \in Callers :
              /\ (CallerPush(c) /\ ~done_[tgt[c]] /\ Len(deque_[tgt[c]]) < max_size_)
                    => /\ pc'[c] = "idle"
                       /\ ret'[c] = "push_stored"
                       /\ deque_'[tgt[c]] = Append(deque_[tgt[c]], task[c])
                       /\ c \notin cv_not_full_'[tgt[c]]
                       /\ taken' = taken
              /\ (pc[c] = "push" /\ ~done_[tgt[c]] /\ Len(deque_[tgt[c]]) = max_size_)
                    => /\ pc'[c] = "push"
                       /\ task'[c] = task[c]
                       /\ \A k \in 1 .. Len(accepted') : accepted'[k] # task[c]
                       /\ CallerPush(c) => c \in cv_not_full_'[tgt[c]]
        /\ \A q \in Queues :
              Len(deque_'[q]) < Len(deque_[q])
                 => \E c \in Callers :
                       /\ ret'[c] \in {"pop_got", "steal_got", "wait_got"}
                       /\ taken'[task'[c]] = taken[task'[c]] + 1
                       /\ Len(deque_'[q]) = Len(deque_[q]) - 1 ]_vars

\* a push that had blocked on the full deque was woken by a removal's
\* notification and has stored its task
C11_Witness ==
    \E c \in Callers :
        /\ pc[c] = "idle"
        /\ ret[c] = "push_stored"
        /\ wokenBy[c] = "notify"
        /\ \E d \in Callers : ret[d] \in {"pop_got", "steal_got", "wait_got"}

RECURSIVE SumOver(_, _)
\* sum of f over the finite set S
SumOver(f, S) ==
    IF S = {} THEN 0
    ELSE LET x == CHOOSE y \in S : TRUE IN f[x] + SumOver(f, S \ {x})

\* value of the shared counter: one increment per invocation of a task body
completed_slices == SumOver(runs, Tasks)

\* C12: the number of task executions never exceeds the number of tasks
\* submitted, and once it has reached that number and teardown has begun it
\* stays exactly there, during and after teardown.
C12_CountExact ==
    /\ [](completed_slices <= nextTask)
    /\ [][ (dtor # "alive" /\ completed_slices = nextTask)
              => (completed_slices' = nextTask /\ nextTask' = nextTask) ]_vars

\* all MaxSubmits tasks ran while the pool was in operation (every worker was
\* idle in wait_and_pop when its deque was closed), the pool has been destroyed
\* and the count is MaxSubmits
C12_Witness ==
    /\ dtor = "destroyed"
    /\ ~crashed
    /\ nextTask = MaxSubmits
    /\ completed_slices = MaxSubmits
    /\ \A w \in Workers : wokenBy[w] = "close"

\* C13: a close() on an already closed deque can always be made and changes
\* nothing but the count of calls: the flag stays true, the resident tasks, the
\* wait sets and every thread's position, task and last result are unchanged;
\* and no step of any operation resets the closed flag.
C13_CloseIdempotent ==
    /\ [][ /\ \A q \in Queues : done_[q] => done_'[q]
           /\ (CallClose(TestQueue) /\ done_[TestQueue])
                 => /\ done_' = done_
                    /\ deque_' = deque_
                    /\ cv_not_empty_' = cv_not_empty_
                    /\ cv_not_full_' = cv_not_full_
                    /\ pc' = pc
                    /\ task' = task
                    /\ ret' = ret
                    /\ wokenBy' = wokenBy
                    /\ accepted' = accepted
                    /\ dropped' = dropped
                    /\ taken' = taken ]_vars
    /\ []((done_[TestQueue] /\ closes[TestQueue] < MaxCloses) => ENABLED CallClose(TestQueue))

\* close() was called twice on a deque that holds tasks; a push that the first
\* close had woken has returned
C13_Witness ==
    /\ closes[TestQueue] = 2
    /\ done_[TestQueue]
    /\ deque_[TestQueue] # <<>>
    /\ \E c \in Callers : pc[c] = "idle" /\ ret[c] = "push_dropped" /\ wokenBy[c] = "close"

\* C14: a worker that has left its loop was told to stop, and its own deque is
\* closed and was drained: it is empty and no task was destroyed while still
\* resident in it.
C14_ExitOnlyWhenDrained ==
    \A w \in Workers :
        pc[w] = "exit"
           => stop_source_ /\ done_[w] /\ deque_[w] = <<>> /\ discarded[w] = {}

\* C15: once the destructor has raised the pool's stop signal stop_source_, a
\* worker that evaluates its loop condition leaves the loop at once, without
\* another try_pop, try_steal or wait_and_pop.
C15_StopSeenAtLoopTop ==
    [][ \A w \in Workers : (WorkerLoop(w) /\ stop_source_) => pc'[w] = "exit" ]_vars

\* C16: once teardown has started, and every running task body returns, the
\* destruction of the pool eventually completes with every worker out of its loop.
C16_TeardownCompletes ==
    (dtor # "alive") ~> (dtor = "destroyed" /\ \A w \in Workers : pc[w] = "exit")

\* C17: a wait_and_pop that returns the empty result found the deque closed and
\* empty in the critical section it returned from; on an open deque it never
\* returns the empty result, and on a closed deque that holds tasks it returns
\* and removes the back task.
C17_EmptyOnlyWhenClosedEmpty ==
    [][ \A c \in Callers :
           CallerWaitAndPop(c)
              => /\ ret'[c] = "wait_empty"
                       => /\ done_[tgt[c]] /\ deque_[tgt[c]] = <<>>
                          /\ done_'[tgt[c]] /\ deque_'[tgt[c]] = <<>>
                 /\ ~done_[tgt[c]] => ret'[c] # "wait_empty"
                 /\ (done_[tgt[c]] /\ deque_[tgt[c]] # <<>>)
                       => /\ ret'[c] = "wait_got"
                          /\ pc'[c] = "idle"
                          /\ task'[c] = deque_[tgt[c]][Len(deque_[tgt[c]])]
                          /\ deque_'[tgt[c]] = Without(deque_[tgt[c]], Len(deque_[tgt[c]])) ]_vars

\* the deque was full when it was closed (the close woke a blocked push, which
\* dropped its task); since then one task has been removed, by a wait_and_pop,
\* and the other is still resident
C17_Witness ==
    /\ done_[TestQueue]
    /\ Len(deque_[TestQueue]) = max_size_ - 1
    /\ \E c, d \in Callers :
          /\ c # d
          /\ pc[c] = "idle" /\ ret[c] = "wait_got"
          /\ pc[d] = "idle" /\ ret[d] = "push_dropped" /\ wokenBy[d] = "close"

\* C18: a worker iteration starts with try_pop on the worker's own deque; the
\* worker reaches its steal attempt only from a try_pop that removed nothing,
\* makes one try_steal (on a deque drawn by get_random, from the front) and
\* leaves that step; it reaches wait_and_pop only from a try_steal that removed
\* nothing; try_pop and wait_and_pop touch the worker's own deque only, taking
\* from the back, and a worker is never in the wait set of another deque.
C18_WorkerOrder ==
    /\ [][ \A w \in Workers :
              /\ (pc'[w] = "try_pop" /\ pc[w] # "try_pop") => pc[w] = "loop"
              /\ (pc'[w] = "try_steal" /\ pc[w] # "try_steal")
                    => (pc[w] = "try_pop" /\ deque_' = deque_ /\ taken' = taken)
              /\ (pc'[w] = "wait_and_pop" /\ pc[w] # "wait_and_pop")
                    => (pc[w] = "try_steal" /\ deque_' = deque_ /\ taken' = taken)
              /\ WorkerTrySteal(w)
                    => /\ pc'[w] \in {"exec", "wait_and_pop"}
                       /\ cv_not_empty_' = cv_not_empty_
                       /\ pc'[w] = "exec"
                             => \E i \in get_random :
                                   /\ deque_[i] # <<>>
                                   /\ task'[w] = deque_[i][1]
                                   /\ deque_' = [deque_ EXCEPT ![i] = Without(@, 1)]
              /\ (WorkerTryPop(w) \/ WorkerWaitAndPop(w))
                    => /\ \A q \in Queues \ {w} :
                             /\ deque_'[q] = deque_[q]
                             /\ cv_not_empty_'[q] = cv_not_empty_[q]
                       /\ pc'[w] = "exec"
                             => /\ task'[w] = deque_[w][Len(deque_[w])]
                                /\ deque_'[w] = Without(deque_[w], Len(deque_[w])) ]_vars
    /\ [](\A w \in Workers : \A q \in Queues :
              /\ w \in cv_not_empty_[q] => (q = w /\ pc[w] = "wait_and_pop")
              /\ w \notin cv_not_full_[q])

\* one worker found its own deque empty and is running a task it stole from
\* the other deque, while the other worker, after an empty try_pop and an empty
\* try_steal, is blocked in wait_and_pop on its own deque
C18_Witness ==
    \E w, v \in Workers :
        /\ w # v
        /\ pc[w] = "exec" /\ tgt[w] = v
        /\ pc[v] = "wait_and_pop" /\ v \in cv_not_empty_[v]

\* number of places task t is resident in, over all deques
Occurrences(t) ==
    SumOver([q \in Queues |-> Cardinality({k \in 1 .. Len(deque_[q]) : deque_[q][k] = t})],
            Queues)

\* the workers that hold task t
Holders(t) == {w \in Workers : task[w] = t}

\* C19: every accepted task is in exactly one place: resident once in one deque,
\* or removed exactly once by a worker, which runs it once (at most one worker
\* holds it, and only while executing it); a task is stored at most once, a
\* task that was not stored is nowhere, and the only way a stored task leaves
\* without being removed is the destruction of the deques at teardown.
C19_SingleOwner ==
    \A t \in Tasks :
        /\ Cardinality({k \in 1 .. Len(accepted) : accepted[k] = t}) <= 1
        /\ (\A k \in 1 .. Len(accepted) : accepted[k] # t)
              => (Occurrences(t) = 0 /\ taken[t] = 0 /\ \A q \in Queues : t \notin discarded[q])
        /\ (\E k \in 1 .. Len(accepted) : accepted[k] = t)
              => Occurrences(t) + taken[t]
                   + Cardinality({q \in Queues : t \in discarded[q]}) = 1
        /\ queues_alive => \A q \in Queues : t \notin discarded[q]
        /\ runs[t] = taken[t]
        /\ Cardinality(Holders(t)) <= taken[t]
        /\ \A w \in Holders(t) : pc[w] = "exec"

\* the pool is in operation; one accepted task is resident in a deque, another
\* is being executed by the worker that removed it, a third has finished
C19_Witness ==
    /\ dtor = "alive"
    /\ \E t, u, v \in Submitted :
          /\ Occurrences(t) = 1
          /\ taken[u] = 1 /\ Holders(u) # {}
          /\ taken[v] = 1 /\ Holders(v) = {}

\* C20: a try_pop or try_steal is a single step that returns: the caller is in
\* no wait set afterwards and the closed flag is unchanged; on an empty deque,
\* open or closed, the call returns the empty result and changes neither the
\* contents nor the wait sets; and the call can always be made.
C20_TryNeverWaits ==
    /\ [][ \A c \in Callers :
              (CallTryPop(c, TestQueue) \/ CallTrySteal(c, TestQueue))
                 => /\ pc'[c] = "idle"
                    /\ \A q \in Queues : c \notin cv_not_empty_'[q] \cup cv_not_full_'[q]
                    /\ done_' = done_
                    /\ deque_[TestQueue] = <<>>
                          => /\ ret'[c] \in {"pop_empty", "steal_empty"}
                             /\ deque_' = deque_
                             /\ task' = task
                             /\ taken' = taken
                             /\ cv_not_empty_' = cv_not_empty_
                             /\ cv_not_full_' = cv_not_full_ ]_vars
    /\ [](\A c \in Callers :
              pc[c] = "idle"
                 => (ENABLED CallTryPop(c, TestQueue) /\ ENABLED CallTrySteal(c, TestQueue)))

\* on the closed, empty deque one thread's try_pop and another thread's
\* try_steal have returned the empty result
C20_Witness ==
    /\ done_[TestQueue]
    /\ deque_[TestQueue] = <<>>
    /\ \E c, d \in Callers :
          /\ pc[c] = "idle" /\ ret[c] = "pop_empty"
          /\ pc[d] = "idle" /\ ret[d] = "steal_empty"

\* C21: close() leaves the sequence of resident tasks (and every thread's task
\* and the store and removal histories) as it was, and on a closed deque that
\* holds tasks try_pop and wait_and_pop still remove and return the back task
\* and try_steal the front task.
C21_CloseKeepsTasks ==
    [][ /\ CallClose(TestQueue)
              => /\ deque_' = deque_
                 /\ task' = task
                 /\ accepted' = accepted
                 /\ dropped' = dropped
                 /\ taken' = taken
        /\ \A c \in Callers :
              (done_[TestQueue] /\ deque_[TestQueue] # <<>>)
                 => /\ (CallTryPop(c, TestQueue) \/ CallerWaitAndPop(c))
                          => /\ ret'[c] \in {"pop_got", "wait_got"}
                             /\ task'[c] = deque_[TestQueue][Len(deque_[TestQueue])]
                             /\ deque_'[TestQueue]
                                   = Without(deque_[TestQueue], Len(deque_[TestQueue]))
                    /\ CallTrySteal(c, TestQueue)
                          => /\ ret'[c] = "steal_got"
                             /\ task'[c] = deque_[TestQueue][1]
                             /\ deque_'[TestQueue] = Without(deque_[TestQueue], 1) ]_vars

\* the deque was full when it was closed (the close woke a blocked push, which
\* dropped its task); afterwards a try_steal took the older of the two resident
\* tasks and the newer one is still resident
C21_Witness ==
    /\ done_[TestQueue]
    /\ Len(deque_[TestQueue]) = max_size_ - 1
    /\ \E c, d \in Callers :
          /\ c # d
          /\ pc[c] = "idle" /\ ret[c] = "steal_got"
          /\ \A u \in Resident(TestQueue) : Position(task[c]) < Position(u)
          /\ pc[d] = "idle" /\ ret[d] = "push_dropped" /\ wokenBy[d] = "close"

\* C22: once the task that never returns has been started, the destruction of
\* the pool never completes; and when all deques have been closed while a worker
\* is stuck in that task, every other worker eventually leaves its loop.
C22_HungTaskBlocksTeardownOnly ==
    /\ [](runs[HungTask] >= 1 => dtor # "destroyed")
    /\ \A w, v \in Workers :
          ( /\ w # v
            /\ pc[w] = "exec" /\ task[w] = HungTask
            /\ dtor \in {"members", "jthreads"} )
             ~> (pc[v] = "exit")

\* C23: a deque is closed only after stop_source_ has been raised; the deques
\* are closed one at a time in increasing index order; and no jthread is joined
\* (nor is the destruction of the members under way) before every deque is closed.
C23_TeardownOrder ==
    /\ [](\A q \in Queues :
              done_[q] => (stop_source_ /\ \A r \in Queues : r < q => done_[r]))
    /\ [](dtor \in {"jthreads", "destroyed"} => \A q \in Queues : done_[q])
    /\ [][ /\ \A q \in Queues :
                 (~done_[q] /\ done_'[q])
                    => /\ stop_source_
                       /\ \A r \in Queues : r < q => done_[r]
                       /\ \A r \in Queues \ {q} : done_'[r] = done_[r]
           /\ JthreadJoin => \A q \in Queues : done_[q] ]_vars

\* every deque is closed and the first worker has been joined
C23_Witness ==
    /\ dtor = "jthreads"
    /\ di > 0
    /\ stop_source_
    /\ \A q \in Queues : done_[q]

\* number of mutexes thread th holds
HeldCount(th) ==
    (IF rand_mut = th THEN 1 ELSE 0) + Cardinality({q \in Queues : mut_[q] = th})

\* C24: no thread holds two mutexes at once: rand_mut is released before a
\* deque mutex is requested and no thread holds the mutexes of two deques; a
\* thread that is waiting for a mutex, is blocked on a condition variable or is
\* running a task holds none; and a thread that holds a mutex can always take
\* its next step, so no cycle of threads waiting for each other's mutex exists.
C24_OneLockAtATime ==
    \A th \in Threads :
        /\ HeldCount(th) <= 1
        /\ pc[th] \in {"get_random_lock", "push_lock", "try_pop_lock", "try_steal_lock",
                       "wait_and_pop_lock", "exec", "idle", "loop", "exit"}
              => HeldCount(th) = 0
        /\ Blocked(th) => HeldCount(th) = 0
        /\ HeldCount(th) = 1
              => \/ ENABLED GetRandomDraw(th)
                 \/ ENABLED LockedPush(th)
                 \/ ENABLED LockedTryPop(th)
                 \/ ENABLED LockedTrySteal(th)
                 \/ ENABLED LockedWaitAndPop(th)

\* a submitter holds rand_mut while one worker holds the mutex of its own
\* deque and the other worker waits for that same mutex to steal
C24_Witness ==
    /\ \E c \in Submitters : rand_mut = c
    /\ \E w, v \in Workers :
          /\ w # v
          /\ mut_[w] = w
          /\ pc[v] = "try_steal_lock" /\ tgt[v] = w

\* C25: the index a submitter routes its task to and the index a worker steals
\* from lie in 0 .. thread_count - 1; the same holds for the distribution built
\* for every thread count the constructor can compute (which is at least 1, so
\* the range is never empty); and a worker that draws its own index takes the
\* front (oldest) task of its own deque.
C25_IndexInRange ==
    /\ [](\A c \in Submitters : pc[c] = "push" => (0 <= tgt[c] /\ tgt[c] < thread_count))
    /\ [](\A hw \in 0 .. MaxHardware :
              /\ thread_count_for(hw) >= 1
              /\ uniform_int_distribution(0, thread_count_for(hw) - 1) # {}
              /\ \A i \in uniform_int_distribution(0, thread_count_for(hw) - 1) :
                    0 <= i /\ i < thread_count_for(hw))
    /\ [](\A i \in get_random : 0 <= i /\ i < thread_count)
    /\ [][ \A w \in Workers :
              (WorkerTrySteal(w) /\ pc'[w] = "exec")
                 => /\ 0 <= tgt'[w] /\ tgt'[w] < thread_count
                    /\ tgt'[w] = w
                          => /\ task'[w] = Oldest(w)
                             /\ task'[w] = deque_[w][1]
                             /\ deque_'[w] = Without(deque_[w], 1) ]_vars

\* a worker is running the oldest task of its own deque, which it took while a
\* newer task was resident there: the deque was full when a submitter blocked on
\* it, and the removal that woke the submitter left the newer task behind
C25_Witness ==
    \E w \in Workers, c \in Submitters :
        /\ pc[w] = "exec" /\ tgt[w] = w
        /\ pc[c] = "push" /\ tgt[c] = w /\ wokenBy[c] = "notify"
        /\ Len(deque_[w]) = max_size_ - 1
        /\ \A u \in Resident(w) : Position(task[w]) < Position(u)

\* every deque is empty and open and no submit call is in progress
Quiescent ==
    /\ \A q \in Queues : deque_[q] = <<>> /\ ~done_[q]
    /\ \A c \in Submitters : pc[c] = "idle"

\* C26: while every deque is empty and open and nothing is being submitted,
\* every worker comes to block in wait_and_pop on its own deque, and in the end
\* all workers stay there; a worker leaves wait_and_pop only when its own deque
\* holds a task or is closed, and leaves the wait set only through a push onto
\* its own deque, a close, or a spurious wake-up (after which it waits again).
C26_IdleWorkersBlock ==
    /\ \A w \in Workers : Quiescent ~> (w \in cv_not_empty_[w] \/ ~Quiescent)
    /\ <>[](\A w \in Workers : pc[w] = "wait_and_pop")
    /\ [][ \A w \in Workers :
              /\ (pc[w] = "wait_and_pop" /\ pc'[w] # "wait_and_pop")
                    => (deque_[w] # <<>> \/ done_[w])
              /\ (w \in cv_not_empty_[w] /\ w \notin cv_not_empty_'[w])
                    => \/ Len(deque_'[w]) > Len(deque_[w])
                       \/ done_'[w]
                       \/ wokenBy'[w] = "spurious" ]_vars

\* all submitted tasks have run, the deques are empty and open, and every
\* worker is blocked in wait_and_pop on its own deque
C26_Witness ==
    /\ Quiescent
    /\ nextTask = MaxSubmits
    /\ \A t \in Submitted : runs[t] = 1
    /\ \A w \in Workers : pc[w] = "wait_and_pop" /\ w \in cv_not_empty_[w]

RunnablePushers(q) ==
    {c \in Callers : pc[c] = "push" /\ tgt[c] = q /\ c \notin cv_not_full_[q]}

\* no caller can take a step inside a call: each one is idle or waits on a
\* condition variable
NoCallerRunnable ==
    \A c \in Callers :
        \/ pc[c] = "idle"
        \/ pc[c] = "push" /\ c \in cv_not_full_[tgt[c]]
        \/ pc[c] = "wait_and_pop" /\ c \in cv_not_empty_[tgt[c]]

\* C28: no wake-up is lost on the not-full side. A removal from a deque on
\* which pushers wait wakes one of them; while a pusher waits on an open deque
\* there are never more free slots than pushers about to test the predicate, so
\* there is no state in which the deque is open and below capacity, a pusher
\* waits on it and nobody can take a step; and a pending push on an open deque
\* below capacity eventually stores its task unless the deque is closed or
\* another push fills it first.
C28_NoLostWakeupNotFull ==
    /\ [][ \A q \in Queues :
              (Len(deque_'[q]) < Len(deque_[q]) /\ cv_not_full_[q] # {})
                 => \E c \in cv_not_full_[q] :
                       /\ c \notin cv_not_full_'[q]
                       /\ wokenBy'[c] = "notify" ]_vars
    /\ [](\A q \in Queues :
             (~done_[q] /\ cv_not_full_[q] # {})
                => max_size_ - Len(deque_[q]) <= Cardinality(RunnablePushers(q)))
    /\ [](\A q \in Queues :
             ~(/\ ~done_[q]
               /\ Len(deque_[q]) < max_size_
               /\ cv_not_full_[q] # {}
               /\ NoCallerRunnable))
    /\ \A c \in Callers :
          (pc[c] = "push" /\ ~done_[TestQueue] /\ Len(deque_[TestQueue]) < max_size_)
             ~> \/ pc[c] = "idle" /\ ret[c] = "push_stored"
                \/ done_[TestQueue]
                \/ Len(deque_[TestQueue]) = max_size_

\* a push that waited on the full deque and was woken by a removal has stored
\* its task in the slot the removal freed: the deque is open and full again
\* and the task is its newest resident
C28_Witness ==
    \E c \in Callers :
        /\ ret[c] = "push_stored" /\ pc[c] = "idle"
        /\ wokenBy[c] = "notify"
        /\ ~done_[TestQueue]
        /\ Len(deque_[TestQueue]) = max_size_
        /\ closes[TestQueue] = 0
        /\ \E d \in Callers \ {c} : ret[d] \in {"pop_got", "steal_got", "wait_got"}

\* C29: while the destruction of the pool has not started every worker is
\* live (none has left its loop and the process runs), and a worker leaves its
\* loop only once the destructor has raised stop_source_ and either closed the
\* worker's deque or requested the stop of the worker's own thread.
C29_NoExitBeforeDestruction ==
    /\ [](dtor = "alive"
             => /\ ~crashed
                /\ Cardinality({w \in Workers : pc[w] \notin {"exit", "terminated"}})
                      = thread_count)
    /\ [][ \A w \in Workers :
              (pc[w] # "exit" /\ pc'[w] = "exit")
                 => /\ dtor # "alive"
                    /\ stop_source_
                    /\ done_[w] \/ jstop[w] ]_vars

\* destruction has not started, every submitted task has been run, the deques
\* are empty, and the workers are still in their loops: one has just returned
\* from a task and is about to test its token, another is blocked in
\* wait_and_pop on its own empty deque
C29_Witness ==
    /\ dtor = "alive"
    /\ ~stop_source_
    /\ \A t \in Submitted : runs[t] = 1
    /\ \A q \in Queues : deque_[q] = <<>>
    /\ \E w \in Workers : pc[w] = "loop" /\ task[w] = NoTask
    /\ \E v \in Workers : pc[v] = "wait_and_pop" /\ v \in cv_not_empty_[v]

====
